---- MODULE Spec2Model ----
(***************************************************************************)
(* Model of the ModernURL storage provider (src/lib/storage/modern.js):    *)
(* a debounced writer of a UI state into the browser history, a reader of  *)
(* the query string, and a popstate subscription.  The host (window) is    *)
(* modelled by its timers, its popstate listeners, its session history,    *)
(* its location and its document title.                                    *)
(***************************************************************************)
EXTENDS Integers, Sequences, FiniteSets, TLC

(* ------------------------------ bounds -------------------------------- *)
MaxWrites == 2   \* calls of write(), the one made by dispose() included
MaxNav == 1      \* popstate events dispatched by the host
MaxReg == 2      \* calls of onUpdate()

(* --------------------------- JavaScript values ------------------------ *)
undefined == [undef |-> TRUE]
Str(cs) == [str |-> cs]
Num(n) == [num |-> n]
Obj(pairs) == [obj |-> pairs]
Arr(items) == [arr |-> items]

IsObj(v) == DOMAIN v = {"obj"}
IsStr(v) == DOMAIN v = {"str"}
IsNum(v) == DOMAIN v = {"num"}
IsArr(v) == DOMAIN v = {"arr"}

\* truthiness as used by `if (title)`, `!uiState`, `title || ''`
Truthy(v) ==
  IF IsObj(v) \/ IsArr(v) THEN TRUE
  ELSE IF IsStr(v) THEN v.str # <<>>
  ELSE IF IsNum(v) THEN v.num # 0
  ELSE FALSE

\* Object.keys(uiState).length
NumKeys(v) == Len(v.obj)

(* the UI states handed to write() by the application *)
sA == Obj(<< <<"q", Str(<<"a">>)>> >>)
sB == Obj(<< <<"q", Str(<<"b">>)>>, <<"p", Num(12)>> >>)
sE == Obj(<<>>)
UIStates == {sA, sB, sE}

(* the shapes of UI state: flat, nested, with arrays, with empty containers *)
Leaves == {Str(<<"a">>), Str(<<"1", "2">>), Num(7)}
Shapes ==
  {Obj(<< <<"q", l>> >>) : l \in Leaves}
    \cup {Obj(<< <<"q", l[1]>>, <<"p", l[2]>> >>) : l \in Leaves \X Leaves}
    \cup {Obj(<< <<"r", Obj(<< <<"x", l>> >>)>> >>) : l \in Leaves}
    \cup {Obj(<< <<"l", Arr(<<l[1], l[2]>>)>> >>) : l \in Leaves \X Leaves}
    \cup {Obj(<< <<"q", l>>, <<"r", Obj(<< <<"l", Arr(<<l>>)>> >>)>> >>) : l \in Leaves}
    \cup {Obj(<<>>), Obj(<< <<"r", Obj(<<>>)>> >>), Obj(<< <<"l", Arr(<<>>)>> >>)}

(* the callbacks handed to onUpdate() by the application *)
Callbacks == {"cb1", "cb2"}

(* ------------------------------- qs ----------------------------------- *)
Digit(d) == <<"0", "1", "2", "3", "4", "5", "6", "7", "8", "9">>[d + 1]

RECURSIVE Digits(_)
Digits(n) == IF n < 10 THEN <<Digit(n)>> ELSE Digits(n \div 10) \o <<Digit(n % 10)>>

\* the text qs.stringify writes for a leaf value
LeafText(v) ==
  IF IsStr(v) THEN v.str
  ELSE IF IsNum(v) THEN Digits(v.num)
  ELSE <<>>

\* the key qs.stringify writes for member k of the container written as prefix
MemberKey(prefix, k) ==
  IF prefix = <<>> THEN k ELSE prefix \o <<"%5B">> \o k \o <<"%5D">>

\* the `key=value` parts qs.stringify writes for a value, and for the members
\* i.. of a container; an empty container and an absent value write nothing
RECURSIVE StringifyValue(_, _), StringifyMembers(_, _, _)
StringifyValue(prefix, v) ==
  IF IsObj(v) \/ IsArr(v) THEN StringifyMembers(prefix, v, 1)
  ELSE IF IsStr(v) \/ IsNum(v) THEN <<prefix \o <<"=">> \o LeafText(v)>>
  ELSE <<>>

StringifyMembers(prefix, v, i) ==
  IF IsObj(v)
  THEN IF i > Len(v.obj) THEN <<>>
       ELSE StringifyValue(MemberKey(prefix, <<v.obj[i][1]>>), v.obj[i][2])
              \o StringifyMembers(prefix, v, i + 1)
  ELSE IF i > Len(v.arr) THEN <<>>
       ELSE StringifyValue(MemberKey(prefix, Digits(i - 1)), v.arr[i])
              \o StringifyMembers(prefix, v, i + 1)

\* the parts joined by '&'
RECURSIVE JoinParts(_)
JoinParts(parts) ==
  IF parts = <<>> THEN <<>>
  ELSE IF Len(parts) = 1 THEN parts[1]
  ELSE parts[1] \o <<"&">> \o JoinParts(Tail(parts))

\* qs.stringify(uiState): '' for anything that is not an object
qsStringify(v) == IF IsObj(v) THEN JoinParts(StringifyValue(<<>>, v)) ELSE <<>>

\* index of the first occurrence of token c in cs, 0 when absent
IndexOf(cs, c) ==
  IF \E i \in 1..Len(cs) : cs[i] = c
  THEN CHOOSE i \in 1..Len(cs) : cs[i] = c /\ \A k \in 1..(i - 1) : cs[k] # c
  ELSE 0

\* the decoder of qs.parse, on the escapes qs.stringify writes
RECURSIVE Decode(_)
Decode(cs) ==
  IF cs = <<>> THEN <<>>
  ELSE <<IF Head(cs) = "%5B" THEN "[" ELSE IF Head(cs) = "%5D" THEN "]" ELSE Head(cs)>>
         \o Decode(Tail(cs))

\* the string made of the tokens
RECURSIVE Concat(_)
Concat(cs) == IF cs = <<>> THEN "" ELSE Head(cs) \o Concat(Tail(cs))

IsIndex(cs) ==
  cs # <<>> /\ \A i \in 1..Len(cs) :
    cs[i] \in {"0", "1", "2", "3", "4", "5", "6", "7", "8", "9"}

\* the number the digits write
RECURSIVE ToNat(_)
ToNat(cs) ==
  IF cs = <<>> THEN 0
  ELSE 10 * ToNat(SubSeq(cs, 1, Len(cs) - 1))
         + (CHOOSE d \in 0..9 : Digit(d) = cs[Len(cs)])

\* the bracket segments of a decoded key, after its root: a[b][0] gives b, 0
RECURSIVE Segments(_)
Segments(cs) ==
  LET o == IndexOf(cs, "[")
      c == IndexOf(cs, "]")
  IN IF o = 0 \/ c < o THEN <<>>
     ELSE <<[key |-> Concat(SubSeq(cs, o + 1, c - 1)),
             index |-> IsIndex(SubSeq(cs, o + 1, c - 1)),
             n |-> IF IsIndex(SubSeq(cs, o + 1, c - 1))
                   THEN ToNat(SubSeq(cs, o + 1, c - 1)) ELSE 0]>>
            \o Segments(SubSeq(cs, c + 1, Len(cs)))

\* the chain of keys a decoded key names: the root, then the segments
KeyChain(cs) ==
  LET o == IndexOf(cs, "[")
      root == IF o = 0 THEN cs ELSE SubSeq(cs, 1, o - 1)
  IN <<[key |-> Concat(root), index |-> FALSE, n |-> 0]>> \o Segments(cs)

\* one `key=value` part of a query string; the value is always a string
ParsePart(part) ==
  LET e == IndexOf(part, "=")
  IN IF e = 0 THEN [chain |-> KeyChain(Decode(part)), val |-> Str(<<>>)]
     ELSE [chain |-> KeyChain(Decode(SubSeq(part, 1, e - 1))),
           val |-> Str(Decode(SubSeq(part, e + 1, Len(part))))]

\* position of key k among the pairs, 0 when absent
RECURSIVE KeyFrom(_, _, _)
KeyFrom(pairs, k, i) ==
  IF i > Len(pairs) THEN 0
  ELSE IF pairs[i][1] = k THEN i
  ELSE KeyFrom(pairs, k, i + 1)

\* the value v (undefined when absent) with leaf put at the end of the chain:
\* an index segment fills an array, in order, any other segment sets a key,
\* and a second value for the same key makes an array of the two
RECURSIVE Insert(_, _, _)
Insert(v, chain, leaf) ==
  IF chain = <<>>
  THEN IF v = undefined THEN leaf
       ELSE IF IsArr(v) THEN Arr(Append(v.arr, leaf))
       ELSE Arr(<<v, leaf>>)
  ELSE LET seg == Head(chain)
           rest == Tail(chain)
       IN IF seg.index /\ (v = undefined \/ IsArr(v))
          THEN LET items == IF v = undefined THEN <<>> ELSE v.arr
               IN IF seg.n < Len(items)
                  THEN Arr([items EXCEPT ![seg.n + 1] = Insert(items[seg.n + 1], rest, leaf)])
                  ELSE Arr(Append(items, Insert(undefined, rest, leaf)))
          ELSE LET pairs == IF IsObj(v) THEN v.obj ELSE <<>>
                   i == KeyFrom(pairs, seg.key, 1)
               IN IF i = 0
                  THEN Obj(Append(pairs, <<seg.key, Insert(undefined, rest, leaf)>>))
                  ELSE Obj([pairs EXCEPT ![i] = <<seg.key, Insert(pairs[i][2], rest, leaf)>>])

\* the object built from the parts of cs, the text between the '&'
RECURSIVE ParseParts(_, _)
ParseParts(cs, acc) ==
  IF cs = <<>> THEN acc
  ELSE LET a == IndexOf(cs, "&")
           part == IF a = 0 THEN cs ELSE SubSeq(cs, 1, a - 1)
           rest == IF a = 0 THEN <<>> ELSE SubSeq(cs, a + 1, Len(cs))
       IN IF part = <<>> THEN ParseParts(rest, acc)
          ELSE ParseParts(rest, Insert(acc, ParsePart(part).chain, ParsePart(part).val))

\* qs.parse(str)
qsParse(cs) == ParseParts(cs, Obj(<<>>))

(* ----------------------------- location ------------------------------- *)
\* a read that parses the search with its leading '?'
Slice0(cs) == cs

\* String.prototype.slice(1)
Slice1(cs) == IF cs = <<>> THEN <<>> ELSE Tail(cs)

\* the search and hash the browser derives from a URL given to pushState
HashOf(url) ==
  LET h == IndexOf(url, "#")
  IN IF h = 0 THEN <<>> ELSE SubSeq(url, h, Len(url))

SearchOf(url) ==
  LET h == IndexOf(url, "#")
      beforeHash == IF h = 0 THEN url ELSE SubSeq(url, 1, h - 1)
      q == IndexOf(beforeHash, "?")
  IN IF q = 0 \/ q = Len(beforeHash) THEN <<>>
     ELSE SubSeq(beforeHash, q, Len(beforeHash))

\* the location the browser derives from a URL of the page's origin
LocationOf(url) ==
  [protocol |-> <<url[1]>>, hostname |-> <<url[3]>>,
   port |-> IF url[4] = ":" THEN <<url[5]>> ELSE <<>>,
   pathname |-> IF url[4] = ":" THEN <<url[6]>> ELSE <<url[4]>>,
   search |-> SearchOf(url), hash |-> HashOf(url)]

\* the session histories the page may be constructed in: a fresh page, and a
\* reloaded page whose history holds an entry pushed earlier, ahead of the
\* current one
Sessions ==
  { [entries |-> <<[state |-> undefined, title |-> <<>>,
                    url |-> <<"http:", "//", "host", "/p", "?", "q", "=", "z">>]>>,
     index |-> 1],
    [entries |-> <<[state |-> undefined, title |-> <<>>,
                    url |-> <<"https:", "//", "host", ":", "8080", "/p", "?", "q", "=", "y", "#", "top">>],
                   [state |-> sB, title |-> <<>>,
                    url |-> <<"https:", "//", "host", ":", "8080", "/p", "?", "q", "=", "b",
                              "&", "p", "=", "1", "2", "#", "sec">>]>>,
     index |-> 1] }

(* ------------------------------ titles -------------------------------- *)
\* the titleFromUIState option: absent, or a function of the UI state
TitleOptions == {"absent", "fromUIState"}

TitleFunction(uiState) ==
  IF uiState = sA THEN Str(<<"A">>)
  ELSE IF uiState = sB THEN Str(<<>>)
  ELSE IF uiState = sE THEN Str(<<"E">>)
  ELSE Str(<<"cleared">>)

(* ------------------------------- state -------------------------------- *)
VARIABLES
  titleFromUIState,  \* this.titleFromUIState
  writeTimer,        \* this.writeTimer: 0 is undefined, else a timer id
  onPopState,        \* this._onPopState: 0 is undefined, else a listener id
  timers,            \* host: the scheduled, un-cancelled, un-fired timeouts
  listeners,         \* host: the popstate listeners, in registration order
  entries,           \* host: window.history, the session history entries
  index,             \* host: position of the current entry in entries
  location,          \* host: window.location
  docTitle,          \* host: window.document.title
  writes,            \* log: the calls of write(), by call number
  pushLog,           \* log: the calls of history.pushState
  titleLog,          \* log: the assignments of document.title
  navLog,            \* log: the popstate events and the callbacks they ran
  disposed           \* log: dispose() has been called

vars == <<titleFromUIState, writeTimer, onPopState, timers, listeners, entries,
          index, location, docTitle, writes, pushLog, titleLog, navLog,
          disposed>>

hostVars == <<entries, index, location, docTitle>>

Init ==
  /\ titleFromUIState \in TitleOptions
  /\ writeTimer = 0
  /\ onPopState = 0
  /\ timers = {}
  /\ listeners = <<>>
  /\ \E session \in Sessions :
       /\ entries = session.entries
       /\ index = session.index
       /\ location = LocationOf(session.entries[session.index].url)
  /\ docTitle = <<"doc">>
  /\ writes = <<>>
  /\ pushLog = <<>>
  /\ titleLog = <<>>
  /\ navLog = <<>>
  /\ disposed = FALSE

(* ----------------------------- createURL ------------------------------ *)
\* a createURL without the test for an absent or empty state
createURLAlwaysQuery(uiState) ==
  location.protocol \o <<"//">> \o location.hostname
    \o (IF location.port = <<>> THEN <<>> ELSE <<":">> \o location.port)
    \o location.pathname \o <<"?">> \o qsStringify(uiState) \o location.hash

\* a createURL that tests only for an absent state
createURLAbsentOnly(uiState) ==
  LET origin == location.protocol \o <<"//">> \o location.hostname
                  \o (IF location.port = <<>> THEN <<>> ELSE <<":">> \o location.port)
  IN IF ~Truthy(uiState)
     THEN origin \o location.pathname \o location.hash
     ELSE origin \o location.pathname \o <<"?">> \o qsStringify(uiState) \o location.hash

createURL(uiState) ==
  LET queryString == qsStringify(uiState)
      portWithPrefix == IF location.port = <<>> THEN <<>> ELSE <<":">> \o location.port
      origin == location.protocol \o <<"//">> \o location.hostname \o portWithPrefix
  IN IF ~Truthy(uiState) \/ NumKeys(uiState) = 0
     THEN origin \o location.pathname \o location.hash
     ELSE origin \o location.pathname \o <<"?">> \o queryString \o location.hash

(* -------------------------------- read -------------------------------- *)
readAt(loc) == qsParse(Slice1(loc.search))

read == readAt(location)

(* ------------------------------- write -------------------------------- *)
\* a clearTimeout that cancels nothing
clearTimeoutNoop(tm, id) == tm

\* window.clearTimeout(id): drops the timeout with that id, if still scheduled
clearTimeout(tm, id) == {t \in tm : t.id # id}

\* a write that forgets to cancel the pending timeout
KeepPending(tm, wt) == tm

\* the timeouts left after `if (this.writeTimer) window.clearTimeout(this.writeTimer)`
ClearPending(tm, wt) == IF wt # 0 THEN clearTimeout(tm, wt) ELSE tm

\* a title computed without testing that the option is configured
TitleForAlways(uiState) == TitleFunction(uiState)

\* a title computed only for a state that is there
TitleForDefinedOnly(uiState) ==
  IF titleFromUIState = "absent" \/ ~Truthy(uiState) THEN undefined
  ELSE TitleFunction(uiState)

\* the title computed by `this.titleFromUIState && this.titleFromUIState(uiState)`
TitleFor(uiState) ==
  IF titleFromUIState = "absent" THEN undefined ELSE TitleFunction(uiState)

\* the body of write(uiState), entered with the timeouts tm; by names the caller
WriteBody(uiState, tm, by) ==
  LET url == createURL(uiState)
      title == TitleFor(uiState)
      call == Len(writes) + 1
      kept == ClearPending(tm, writeTimer)
  IN /\ timers' = kept \cup {[id |-> call, uiState |-> uiState, title |-> title, url |-> url]}
     /\ writeTimer' = call
     /\ writes' = Append(writes, [uiState |-> uiState, by |-> by,
                                  pending |-> {t.id : t \in timers},
                                  pushed |-> Len(pushLog), navs |-> Len(navLog),
                                  location |-> location, url |-> url,
                                  title |-> title])

\* a write that pushes the entry before it returns
WriteSync(uiState) ==
  /\ Len(writes) < MaxWrites
  /\ WriteBody(uiState, timers, "write")
  /\ entries' = Append(SubSeq(entries, 1, index),
                       [state |-> uiState, title |-> <<>>, url |-> createURL(uiState)])
  /\ index' = index + 1
  /\ location' = LocationOf(createURL(uiState))
  /\ UNCHANGED <<titleFromUIState, onPopState, listeners, docTitle, pushLog,
                 titleLog, navLog, disposed>>

Write(uiState) ==
  /\ Len(writes) < MaxWrites
  /\ WriteBody(uiState, timers, "write")
  /\ UNCHANGED <<titleFromUIState, onPopState, listeners, hostVars, pushLog,
                 titleLog, navLog, disposed>>

(* ------------------------- the timeout callback ----------------------- *)
\* a callback that builds the address when it runs
PushedURLAtFire(t) == createURL(t.uiState)

\* the url the callback hands to pushState: the one write() computed
PushedURL(t) == t.url

\* a callback scheduled as an interval: it stays scheduled after it has run
FireRepeating(t) ==
  /\ t \in timers
  /\ Len(pushLog) < MaxWrites + 1
  /\ timers' = timers
  /\ docTitle' = IF Truthy(t.title) THEN t.title.str ELSE docTitle
  /\ titleLog' = titleLog
  /\ entries' = Append(SubSeq(entries, 1, index),
                       [state |-> t.uiState, title |-> <<>>, url |-> t.url])
  /\ index' = index + 1
  /\ location' = LocationOf(t.url)
  /\ pushLog' = Append(pushLog, [call |-> t.id, state |-> t.uiState, title |-> <<>>,
                                 url |-> t.url, docBefore |-> docTitle,
                                 docAfter |-> docTitle', from |-> location])
  /\ writeTimer' = 0
  /\ UNCHANGED <<titleFromUIState, onPopState, listeners, writes, navLog, disposed>>

Fire(t) ==
  /\ t \in timers
  /\ timers' = timers \ {t}
  /\ docTitle' = IF Truthy(t.title) THEN t.title.str ELSE docTitle
  /\ titleLog' = IF Truthy(t.title)
                 THEN Append(titleLog, [call |-> t.id, title |-> t.title.str])
                 ELSE titleLog
  /\ LET entry == [state |-> t.uiState,
                   title |-> IF Truthy(t.title) THEN t.title.str ELSE <<>>,
                   url |-> PushedURL(t)]
     IN /\ entries' = Append(SubSeq(entries, 1, index), entry)
        /\ index' = index + 1
        /\ location' = LocationOf(entry.url)
        /\ pushLog' = Append(pushLog, [call |-> t.id, state |-> entry.state,
                                       title |-> entry.title, url |-> entry.url,
                                       docBefore |-> docTitle, docAfter |-> docTitle',
                                       from |-> location])
  /\ writeTimer' = 0
  /\ UNCHANGED <<titleFromUIState, onPopState, listeners, writes, navLog, disposed>>

(* ------------------------------ onUpdate ------------------------------ *)
onUpdate(cb) ==
  /\ onPopState < MaxReg
  /\ onPopState' = onPopState + 1
  /\ listeners' = Append(listeners, [id |-> onPopState', cb |-> cb, early |-> ~disposed])
  /\ UNCHANGED <<titleFromUIState, writeTimer, timers, hostVars, writes, pushLog,
                 titleLog, navLog, disposed>>

(* ------------------------- the popstate listener ---------------------- *)
\* a listener that leaves the pending write alone
RECURSIVE RunListenersNoCancel(_, _, _, _)
RunListenersNoCancel(ls, state, loc, r) ==
  IF ls = <<>> THEN r
  ELSE LET l == Head(ls)
           arg == IF ~Truthy(state) THEN readAt(loc) ELSE state
       IN RunListenersNoCancel(Tail(ls), state, loc,
            [writeTimer |-> r.writeTimer, timers |-> r.timers,
             calls |-> Append(r.calls, [cb |-> l.cb, listener |-> l.id,
                                        early |-> l.early, arg |-> arg])])

\* a listener that cancels the timeout and leaves this.writeTimer set
RECURSIVE RunListenersKeepMarker(_, _, _, _)
RunListenersKeepMarker(ls, state, loc, r) ==
  IF ls = <<>> THEN r
  ELSE LET l == Head(ls)
           tm == ClearPending(r.timers, r.writeTimer)
           arg == IF ~Truthy(state) THEN readAt(loc) ELSE state
       IN RunListenersKeepMarker(Tail(ls), state, loc,
            [writeTimer |-> r.writeTimer, timers |-> tm,
             calls |-> Append(r.calls, [cb |-> l.cb, listener |-> l.id,
                                        early |-> l.early, arg |-> arg])])

\* a listener that cancels the pending write only for an event with a state
RECURSIVE RunListenersCancelIfState(_, _, _, _)
RunListenersCancelIfState(ls, state, loc, r) ==
  IF ls = <<>> THEN r
  ELSE LET l == Head(ls)
           tm == ClearPending(r.timers, r.writeTimer)
           arg == IF ~Truthy(state) THEN readAt(loc) ELSE state
       IN RunListenersCancelIfState(Tail(ls), state, loc,
            [writeTimer |-> IF Truthy(state) THEN 0 ELSE r.writeTimer,
             timers |-> IF Truthy(state) THEN tm ELSE r.timers,
             calls |-> Append(r.calls, [cb |-> l.cb, listener |-> l.id,
                                        early |-> l.early, arg |-> arg])])

\* a popstate event that cancels the pending write without any listener
RECURSIVE RunListenersAlwaysCancel(_, _, _, _)
RunListenersAlwaysCancel(ls, state, loc, r) ==
  IF ls = <<>> THEN [r EXCEPT !.writeTimer = 0, !.timers = ClearPending(r.timers, r.writeTimer)]
  ELSE LET l == Head(ls)
           tm == ClearPending(r.timers, r.writeTimer)
           arg == IF ~Truthy(state) THEN readAt(loc) ELSE state
       IN RunListenersAlwaysCancel(Tail(ls), state, loc,
            [writeTimer |-> 0, timers |-> tm,
             calls |-> Append(r.calls, [cb |-> l.cb, listener |-> l.id,
                                        early |-> l.early, arg |-> arg])])

\* what a popstate event with payload state does, listener by listener:
\* r carries the instance's writeTimer, the host's timeouts and the callbacks run
RECURSIVE RunListeners(_, _, _, _)
RunListeners(ls, state, loc, r) ==
  IF ls = <<>> THEN r
  ELSE LET l == Head(ls)
           tm == ClearPending(r.timers, r.writeTimer)
           arg == IF ~Truthy(state) THEN readAt(loc) ELSE state
       IN RunListeners(Tail(ls), state, loc,
            [writeTimer |-> 0, timers |-> tm,
             calls |-> Append(r.calls, [cb |-> l.cb, listener |-> l.id,
                                        early |-> l.early, arg |-> arg])])

\* the user moves to entry j of the session history
PopState(j) ==
  /\ Len(navLog) < MaxNav
  /\ j \in 1..Len(entries)
  /\ j # index
  /\ index' = j
  /\ location' = LocationOf(entries[j].url)
  /\ LET r == RunListeners(listeners, entries[j].state, location',
                           [writeTimer |-> writeTimer, timers |-> timers, calls |-> <<>>])
     IN /\ writeTimer' = r.writeTimer
        /\ timers' = r.timers
        /\ navLog' = Append(navLog, [state |-> entries[j].state,
                                     target |-> entries[j],
                                     pending |-> {t.id : t \in timers},
                                     pendingAfter |-> {t.id : t \in r.timers},
                                     marker |-> writeTimer,
                                     markerAfter |-> r.writeTimer,
                                     listeners |-> Len(listeners),
                                     read |-> readAt(location'),
                                     disposed |-> disposed,
                                     calls |-> r.calls])
  /\ UNCHANGED <<titleFromUIState, onPopState, listeners, entries, docTitle,
                 writes, pushLog, titleLog, disposed>>

(* ------------------------------- dispose ------------------------------ *)
\* window.removeEventListener('popstate', this._onPopState)
removeEventListener(ls, id) == SelectSeq(ls, LAMBDA l : l.id # id)

dispose ==
  /\ Len(writes) < MaxWrites
  /\ listeners' = removeEventListener(listeners, onPopState)
  /\ WriteBody(undefined, ClearPending(timers, writeTimer), "dispose")
  /\ disposed' = TRUE
  /\ UNCHANGED <<titleFromUIState, onPopState, hostVars, pushLog, titleLog, navLog>>

(* ------------------------------ behaviour ----------------------------- *)
Next ==
  \/ \E uiState \in UIStates : Write(uiState)
  \/ \E t \in timers : Fire(t)
  \/ \E cb \in Callbacks : onUpdate(cb)
  \/ \E j \in 1..Len(entries) : PopState(j)
  \/ dispose

Spec == Init /\ [][Next]_vars

\* the writer alone, fed with every shape of UI state
NextShapes ==
  \/ \E uiState \in Shapes : Write(uiState)
  \/ \E t \in timers : Fire(t)
  \/ \E j \in 1..Len(entries) : PopState(j)
  \/ dispose

SpecShapes == Init /\ [][NextShapes]_vars

\* the host runs a scheduled timeout once its delay has elapsed
FairSpec == Init /\ [][Next]_vars /\ WF_vars(\E t \in timers : Fire(t))

(* ------------------------------ properties ---------------------------- *)
PushedCalls == {pushLog[i].call : i \in 1..Len(pushLog)}
TitledCalls == {titleLog[i].call : i \in 1..Len(titleLog)}
PendingCalls == {t.id : t \in timers}
NavEvents == {navLog[i] : i \in 1..Len(navLog)}
CallsOf(e) == {e.calls[i] : i \in 1..Len(e.calls)}
HasQuery(url) == IndexOf(url, "?") # 0

\* nothing but timeouts firing has happened since call j of write()
QuietSince(j) == j = Len(writes) /\ Len(navLog) = writes[j].navs

\* C1: a write(a) still pending when write(b) is called is never pushed, and
\* once b's timeout has fired with no further write, navigation or dispose,
\* exactly one push has happened since write(a), with payload b.
C1_DebounceCoalescing ==
  \A j \in 1..Len(writes) : \A a \in writes[j].pending :
    writes[j].by = "write" /\ writes[a].by = "write" =>
      /\ a \notin PushedCalls
      /\ QuietSince(j) /\ timers = {} =>
            /\ Len(pushLog) = writes[a].pushed + 1
            /\ pushLog[Len(pushLog)].call = j
            /\ pushLog[Len(pushLog)].state = writes[j].uiState

C1_Witness ==
  \E j \in 1..Len(writes) : \E a \in writes[j].pending :
    /\ writes[j].by = "write" /\ writes[a].by = "write"
    /\ writes[a].uiState # writes[j].uiState
    /\ QuietSince(j) /\ timers = {} /\ j \in PushedCalls

\* C2: a popstate event with a state payload, handled while a listener is
\* registered and a write is pending, hands the payload to the callback and
\* the pending write is never pushed.
C2_CancelOnNavigate ==
  \A e \in NavEvents :
    e.listeners > 0 /\ e.pending # {} /\ Truthy(e.state) =>
      /\ e.calls # <<>>
      /\ \A c \in CallsOf(e) : c.arg = e.state
      /\ e.pending \cap PushedCalls = {}
      /\ e.pending \cap PendingCalls = {}

C2_Witness ==
  \E e \in NavEvents :
    /\ e.listeners > 0 /\ e.pending # {} /\ Truthy(e.state)
    /\ \E a \in e.pending : writes[a].uiState # e.state

\* C3: at most one write timeout is scheduled at any time.
C3_SinglePendingTimer == Cardinality(timers) <= 1

C3_Witness == Len(writes) >= 2 /\ navLog # <<>> /\ disposed /\ Cardinality(timers) = 1

\* C4: the pushes are an order-preserving subsequence of the write() calls:
\* their call numbers increase strictly and each carries its call's state.
C4_PushOrder ==
  /\ \A i, k \in 1..Len(pushLog) : i < k => pushLog[i].call < pushLog[k].call
  /\ \A i \in 1..Len(pushLog) :
       /\ pushLog[i].call \in 1..Len(writes)
       /\ pushLog[i].state = writes[pushLog[i].call].uiState

C4_Witness == Len(pushLog) >= 2

\* C5 as stated: once no timeout is left after a dispose(), a push made after
\* that dispose() has an address without query component.
C5_DisposeClearsQuery ==
  \A d \in 1..Len(writes) :
    writes[d].by = "dispose" /\ timers = {} =>
      \E i \in (writes[d].pushed + 1)..Len(pushLog) : ~HasQuery(pushLog[i].url)

\* C5 amended: dispose() schedules a clearing write whose address has no query
\* component; it stays pending or is pushed as long as no later write() or
\* popstate event follows, and when it fires the pushed address is the bare
\* one and the pushed state is absent.
C5_DisposeSchedulesClearingWrite ==
  \A d \in 1..Len(writes) :
    writes[d].by = "dispose" =>
      /\ QuietSince(d) => d \in PendingCalls \cup PushedCalls
      /\ \A t \in timers : t.id = d => ~HasQuery(t.url) /\ SearchOf(t.url) = <<>>
      /\ \A i \in 1..Len(pushLog) :
           pushLog[i].call = d =>
             /\ ~HasQuery(pushLog[i].url)
             /\ pushLog[i].state = undefined
             /\ i > writes[d].pushed

C5_Witness ==
  \E d \in 1..Len(writes) :
    /\ writes[d].by = "dispose"
    /\ d \in PushedCalls
    /\ location.search = <<>>
    /\ HasQuery(entries[index - 1].url)

\* C6: after dispose(), no popstate event invokes a callback that was
\* registered before the dispose().
C6_NoCallbackAfterDispose ==
  \A e \in NavEvents : e.disposed => \A c \in CallsOf(e) : ~c.early

\* C7: a popstate event without state payload, handled while a callback is
\* registered, invokes the callback exactly once, with read() of the address
\* current at that moment.
C7_StatelessFallback ==
  \A e \in NavEvents :
    e.listeners > 0 /\ ~Truthy(e.state) =>
      /\ \A c \in CallsOf(e) : c.arg = e.read
      /\ \A cb \in Callbacks :
           Cardinality({i \in 1..Len(e.calls) : e.calls[i].cb = cb}) <= 1
      /\ e.calls # <<>>

\* C8: a write superseded by a later write() or cancelled by dispose() never
\* pushes a history entry and never sets the document title.
C8_CancelledWriteHasNoEffect ==
  \A j \in 1..Len(writes) : \A a \in writes[j].pending :
    a \notin PushedCalls /\ a \notin TitledCalls /\ a \notin PendingCalls

C8_Witness ==
  \E j \in 1..Len(writes) : \E a \in writes[j].pending :
    /\ writes[j].by = "dispose"
    /\ titleFromUIState = "fromUIState"
    /\ TitleFunction(writes[a].uiState).str # <<>>
    /\ j \in PushedCalls

\* C9: a fired write sets the document title exactly once, when it fires, to
\* the non-empty title titleFromUIState gives for its state, and pushes an
\* entry with that title; without the option, or with an empty title, it
\* leaves the document title unchanged.
C9_TitleApplication ==
  /\ \A i \in 1..Len(pushLog) :
       LET p == pushLog[i]
           s == writes[p.call].uiState
           n == Cardinality({k \in 1..Len(titleLog) : titleLog[k].call = p.call})
       IN IF titleFromUIState = "fromUIState" /\ TitleFunction(s).str # <<>>
          THEN /\ p.title = TitleFunction(s).str
               /\ p.docAfter = TitleFunction(s).str
               /\ n = 1
               /\ \A k \in 1..Len(titleLog) :
                    titleLog[k].call = p.call => titleLog[k].title = TitleFunction(s).str
          ELSE /\ p.title = <<>>
               /\ p.docAfter = p.docBefore
               /\ n = 0
  /\ TitledCalls \subseteq PushedCalls
  /\ docTitle = IF pushLog = <<>> THEN <<"doc">> ELSE pushLog[Len(pushLog)].docAfter

C9_Witness ==
  /\ titleFromUIState = "fromUIState"
  /\ Len(pushLog) >= 2
  /\ pushLog[1].title # <<>>
  /\ pushLog[2].title = <<>>
  /\ docTitle = pushLog[1].title

\* C10: the host holds at most one popstate listener of the instance, and a
\* popstate event invokes at most one callback.
C10_SingleSubscriber ==
  /\ Len(listeners) <= 1
  /\ \A e \in NavEvents : Len(e.calls) <= 1

\* C11: a step in which write() is called (by the application or by dispose)
\* leaves the history entries, the current entry, the address and the document
\* title as they were; the entries and the title change only in a step in
\* which a timeout fires and no write() is called.
C11_WriteIsAsynchronous ==
  [][/\ Len(writes') > Len(writes) =>
          /\ UNCHANGED <<entries, index, location, docTitle>>
          /\ pushLog' = pushLog /\ titleLog' = titleLog
     /\ (entries' # entries \/ docTitle' # docTitle) =>
          /\ writes' = writes
          /\ Len(pushLog') = Len(pushLog) + 1
          /\ PendingCalls' = PendingCalls \ {pushLog'[Len(pushLog')].call}
          /\ pushLog'[Len(pushLog')].call \in PendingCalls]_vars

C11_Witness ==
  /\ writes # <<>>
  /\ PendingCalls = {Len(writes)}
  /\ Truthy(writes[Len(writes)].uiState)
  /\ HasQuery(writes[Len(writes)].url)
  /\ pushLog = <<>>
  /\ \E session \in Sessions : entries = session.entries /\ index = session.index
  /\ docTitle = <<"doc">>

\* scheme//host[:port] of a location
OriginOf(loc) ==
  loc.protocol \o <<"//">> \o loc.hostname
    \o (IF loc.port = <<>> THEN <<>> ELSE <<":">> \o loc.port)

\* C12: for an empty or absent uiState the address is scheme//host[:port]path
\* followed directly by the fragment of the location, without '?'; for a
\* uiState with a key it is the same with '?' and the serialization of the
\* uiState between the path and the fragment.
C12_EmptyStateHasNoQuery ==
  \A j \in 1..Len(writes) :
    LET w == writes[j]
        bare == OriginOf(w.location) \o w.location.pathname
    IN IF w.uiState = undefined \/ w.uiState = Obj(<<>>)
       THEN /\ w.url = bare \o w.location.hash
            /\ ~HasQuery(w.url)
       ELSE /\ SubSeq(w.url, 1, Len(bare) + 1) = bare \o <<"?">>
            /\ SubSeq(w.url, Len(w.url) - Len(w.location.hash) + 1, Len(w.url))
                 = w.location.hash
            /\ SubSeq(w.url, Len(bare) + 2, Len(w.url) - Len(w.location.hash))
                 = JoinParts(StringifyValue(<<>>, w.uiState))
            /\ Len(w.uiState.obj) >= 1

C12_Witness ==
  /\ \E j \in 1..Len(writes) :
       writes[j].uiState = Obj(<<>>) /\ writes[j].location.hash # <<>>
         /\ writes[j].location.search # <<>>
  /\ \E j \in 1..Len(writes) :
       writes[j].uiState \in Shapes /\ HasQuery(writes[j].url)

\* the value with every number leaf written as its decimal string
RECURSIVE AsStrings(_)
AsStrings(v) ==
  IF IsNum(v) THEN Str(Digits(v.num))
  ELSE IF IsObj(v) THEN Obj([i \in 1..Len(v.obj) |-> <<v.obj[i][1], AsStrings(v.obj[i][2])>>])
  ELSE IF IsArr(v) THEN Arr([i \in 1..Len(v.arr) |-> AsStrings(v.arr[i])])
  ELSE v

\* no object or array inside the value is empty
RECURSIVE MembersFilled(_)
MembersFilled(v) ==
  IF IsObj(v) THEN \A i \in 1..Len(v.obj) :
                     v.obj[i][2] \notin {Obj(<<>>), Arr(<<>>)} /\ MembersFilled(v.obj[i][2])
  ELSE IF IsArr(v) THEN \A i \in 1..Len(v.arr) :
                     v.arr[i] \notin {Obj(<<>>), Arr(<<>>)} /\ MembersFilled(v.arr[i])
  ELSE TRUE

\* read() on the address of push i
ReadOfPush(i) == readAt(LocationOf(pushLog[i].url))

\* C13 as stated: read() on the address pushed for a UI state s returns s.
C13_RoundTrip ==
  \A i \in 1..Len(pushLog) :
    Truthy(pushLog[i].state) => ReadOfPush(i) = pushLog[i].state

\* C13 amended: read() on the address pushed for a UI state s without empty
\* nested containers returns s with every number leaf as its decimal string,
\* hence s itself when all the leaves of s are strings.
C13_RoundTripAsStrings ==
  \A i \in 1..Len(pushLog) :
    LET s == pushLog[i].state
    IN Truthy(s) /\ MembersFilled(s) =>
         /\ ReadOfPush(i) = AsStrings(s)
         /\ AsStrings(s) = s => ReadOfPush(i) = s

C13_Witness ==
  /\ \E i \in 1..Len(pushLog) :
       /\ pushLog[i].state = Obj(<< <<"l", Arr(<<Str(<<"a">>), Num(7)>>)>> >>)
       /\ ReadOfPush(i) = Obj(<< <<"l", Arr(<<Str(<<"a">>), Str(<<"7">>)>>)>> >>)
  /\ \E i \in 1..Len(pushLog) :
       /\ pushLog[i].state = Obj(<< <<"r", Obj(<< <<"x", Str(<<"1", "2">>)>> >>)>> >>)
       /\ ReadOfPush(i) = pushLog[i].state

\* C14: a pending write is eventually pushed unless a later write(), dispose()
\* or popstate event comes first; and once it has been pushed, with none of
\* these since it was called, exactly one push carries its call and its state
\* and no write is pending.
C14_QuietWriteFires ==
  /\ \A j \in 1..MaxWrites :
       (j \in PendingCalls) ~>
         \/ j \in PushedCalls
         \/ Len(writes) > j
         \/ Len(writes) >= j /\ Len(navLog) > writes[j].navs
  /\ [](\A j \in PushedCalls :
          QuietSince(j) =>
            /\ timers = {}
            /\ writeTimer = 0
            /\ Cardinality({i \in 1..Len(pushLog) : pushLog[i].call = j}) = 1
            /\ pushLog[Len(pushLog)].call = j
            /\ pushLog[Len(pushLog)].state = writes[j].uiState)

C14_Witness ==
  \E j \in PushedCalls :
    /\ QuietSince(j)
    /\ writes[j].by = "write"
    /\ writes[j].pending = {}
    /\ entries[index].state = writes[j].uiState

\* C15: every push carries the uiState of its write() call and the address
\* and title that call computed, from the location as it was at the call.
C15_PushCarriesCallTimeValues ==
  \A i \in 1..Len(pushLog) :
    LET p == pushLog[i]
        w == writes[p.call]
        bare == OriginOf(w.location) \o w.location.pathname
    IN /\ p.state = w.uiState
       /\ p.url = w.url
       /\ SubSeq(p.url, 1, Len(bare)) = bare
       /\ HashOf(p.url) = w.location.hash
       /\ p.title = IF Truthy(w.title) THEN w.title.str ELSE <<>>

C15_Witness ==
  \E i \in 1..Len(pushLog) :
    /\ pushLog[i].from.hash # writes[pushLog[i].call].location.hash
    /\ HashOf(pushLog[i].url) = writes[pushLog[i].call].location.hash
    /\ Truthy(pushLog[i].state)

\* C16: this.writeTimer is set exactly when a timeout is scheduled, and then
\* names it; a popstate event handled by a listener leaves it cleared with no
\* timeout scheduled; after dispose() it names the clearing write.
C16_MarkerConsistency ==
  /\ IF writeTimer = 0 THEN timers = {} ELSE PendingCalls = {writeTimer}
  /\ \A e \in NavEvents :
       /\ e.listeners > 0 => e.markerAfter = 0 /\ e.pendingAfter = {}
       /\ IF e.marker = 0 THEN e.pending = {} ELSE e.pending = {e.marker}
  /\ \A d \in 1..Len(writes) :
       writes[d].by = "dispose" /\ QuietSince(d) /\ d \notin PushedCalls => writeTimer = d

C16_Witness ==
  /\ writes # <<>>
  /\ writes[Len(writes)].by = "dispose"
  /\ writeTimer = Len(writes)
  /\ \E e \in NavEvents : e.listeners > 0 /\ e.marker # 0

\* C17: a popstate event handled by a registered listener while a write is
\* pending cancels that write, with or without a state payload: no write is
\* pending after the event and the write is never pushed.
C17_NavigationAlwaysCancels ==
  \A e \in NavEvents :
    e.listeners > 0 /\ e.pending # {} =>
      /\ e.pendingAfter = {}
      /\ e.markerAfter = 0
      /\ e.pending \cap (PushedCalls \cup PendingCalls) = {}

C17_Witness ==
  \E e \in NavEvents :
    e.listeners > 0 /\ e.pending # {} /\ ~Truthy(e.state) /\ e.calls # <<>>

\* C18: a popstate event that finds no listener of the instance runs no
\* callback and leaves the pending write and this.writeTimer as they were;
\* with no write(), dispose() or popstate event after it, that write stays
\* pending or has been pushed.
C18_NoListenerNoCancel ==
  \A n \in 1..Len(navLog) :
    LET e == navLog[n]
    IN e.listeners = 0 =>
         /\ e.calls = <<>>
         /\ e.pendingAfter = e.pending
         /\ e.markerAfter = e.marker
         /\ \A a \in e.pending :
              a = Len(writes) /\ n = Len(navLog) => a \in PendingCalls \cup PushedCalls

C18_Witness ==
  /\ \E e \in NavEvents :
       e.listeners = 0 /\ e.disposed /\ onPopState # 0 /\ e.pending \cap PushedCalls # {}

\* C19: with titleFromUIState configured, the write of dispose() computes its
\* title from the absent state; when it fires with a non-empty title it sets
\* the document title and the entry title to it and pushes an absent state,
\* and a popstate event for that entry hands read() to the callbacks.
C19_DisposeTitleAndFallback ==
  \A d \in 1..Len(writes) :
    writes[d].by = "dispose" /\ titleFromUIState = "fromUIState" =>
      /\ writes[d].title = TitleFunction(undefined)
      /\ \A i \in 1..Len(pushLog) :
           pushLog[i].call = d =>
             /\ Truthy(TitleFunction(undefined)) =>
                  /\ pushLog[i].title = TitleFunction(undefined).str
                  /\ pushLog[i].docAfter = TitleFunction(undefined).str
             /\ pushLog[i].state = undefined
             /\ \A e \in NavEvents :
                  e.target = [state |-> pushLog[i].state, title |-> pushLog[i].title,
                              url |-> pushLog[i].url]
                    => \A c \in CallsOf(e) : c.arg = e.read /\ c.arg # undefined

C19_Witness ==
  \E d \in 1..Len(writes) : \E i \in 1..Len(pushLog) : \E e \in NavEvents :
    /\ writes[d].by = "dispose" /\ titleFromUIState = "fromUIState"
    /\ pushLog[i].call = d
    /\ pushLog[i].docAfter = <<"cleared">>
    /\ e.target = [state |-> undefined, title |-> <<"cleared">>, url |-> pushLog[i].url]
    /\ e.calls # <<>>

====
